---- MODULE Spec2Model ----
(***************************************************************************)
(* until_needle: read from a buffered source until a needle is found.      *)
(*                                                                         *)
(* Two readers are modelled side by side: "io" is the blocking extension   *)
(* of std::io::BufRead (src/src/io.rs) and "fut" the future driving an     *)
(* AsyncBufRead (src/src/futures.rs).  Each reader owns its own source     *)
(* over the same byte stream S, its own Before and Matched buffers and its *)
(* own scan state.  One step of the model is one iteration of the scan     *)
(* loop: a fill of the source, the search, the consume and, in the         *)
(* iteration that ends the scan, the return.                               *)
(*                                                                         *)
(* Byte offsets are 0-based and ranges half-open, as in the code; TLA+     *)
(* sequences are 1-based, so code slice h[a..b] is SubSeq(h, a+1, b).      *)
(***************************************************************************)
EXTENDS Integers, Sequences, FiniteSets

\* ------------------------------------------------------------------ bounds
\* Longest byte stream a source holds.
MaxStream == 4
\* Longest needle handed to a call.
MaxNeedle == 2
\* Calls issued on one reader.
MaxCalls == 2
\* Interrupted or Pending fill results within one call.
MaxFaults == 1
\* Calls issued on one reader that is read to its end: one more than the
\* longest stream has bytes, so that every reader gets there.
MaxSumCalls == 5

\* The byte values streams and needles are made of.
Bytes == {1, 2}

Variants == {"io", "fut"}

SeqsUpTo(n) == UNION {[1..k -> Bytes] : k \in 0..n}

Streams == SeqsUpTo(MaxStream)

\* Needles include the empty one.
Needles == SeqsUpTo(MaxNeedle)

VARIABLES
    S,       \* the byte stream behind every source
    plan,    \* how the stream is divided into chunks
    active,  \* the readers that run
    rd       \* rd[v]: reader v's source, buffers and scan state

vars == <<S, plan, active, rd>>

Min(xs) == CHOOSE x \in xs : \A y \in xs : x <= y

\* ------------------------------------------------------------------ needle
None == [found |-> FALSE, start |-> 0, end |-> 0]

Max(xs) == CHOOSE x \in xs : \A y \in xs : x >= y

\* Mutant: the last occurrence is returned (rposition).
Findin_Last(needle, haystack) ==
    LET n == Len(needle)
        hits == {p \in 0..(Len(haystack) - n) :
                    SubSeq(haystack, p + 1, p + n) = needle}
    IN  IF hits = {} THEN None
        ELSE [found |-> TRUE, start |-> Max(hits), end |-> Max(hits) + n]

\* haystack.windows(n).position(|w| w == needle).map(|p| p..p + n), for
\* n > 0.  windows(0) panics: see NeedlePanics.
Findin(needle, haystack) ==
    LET n == Len(needle)
        hits == {p \in 0..(Len(haystack) - n) :
                    SubSeq(haystack, p + 1, p + n) = needle}
    IN  IF hits = {} THEN None
        ELSE [found |-> TRUE, start |-> Min(hits), end |-> Min(hits) + n]

\* slice::windows panics on a window size of zero.
NeedlePanics(needle) == Len(needle) = 0

\* ------------------------------------------------------------------ source
\* The source holds one chunk at a time: bytes pos..vend of S are its
\* unconsumed view.  fill exposes that view and fetches the next chunk only
\* when the view is empty; consume(n) drops n bytes from its front.
View(r) == SubSeq(S, r.pos + 1, r.vend)

\* The ends the next chunk may have when the source fetches one at pos.
NextEnds(pos) ==
    IF pos >= Len(S) THEN {Len(S)}
    ELSE IF plan.fixed THEN {Min({c \in plan.cuts \cup {Len(S)} : c > pos})}
    ELSE (pos + 1)..Len(S)

\* The chunk ends a fill of r's source can lead to.  A source that has ended
\* exposes nothing more.
FillEnds(r) ==
    IF r.eof THEN {r.pos}
    ELSE IF r.pos < r.vend THEN {r.vend}
    ELSE NextEnds(r.pos)

\* fill_buf / poll_fill_buf returning Ok: the source now holds bytes up to e.
SrcFill(r, e) == [r EXCEPT !.vend = e, !.fpos = r.pos, !.fill = "ok"]

\* fill_buf returning an error of the given kind, or poll_fill_buf returning
\* Pending.  The source is as it was.
SrcFails(r, result) == [r EXCEPT !.fill = result]

\* The source of the suspending variant is a stream of chunks made a reader
\* by into_async_read.  It asks the stream for its next item only when it
\* holds no chunk and has not ended; Pending and errors are items of the
\* stream.
SrcAwaitsChunk(r) == ~r.eof /\ r.pos = r.vend

\* poll_fill_buf returning Ready(Ok): the view is empty when the stream has
\* no more items, and the source has ended from then on.
SrcPollFill(r, e) == [SrcFill(r, e) EXCEPT !.eof = @ \/ e = r.pos]

\* poll_fill_buf returning Ready(Err): the stream yielded an error.  The
\* source has ended from then on: what the stream held after the error is
\* never delivered.
SrcPollFails(r, kind) == [SrcFails(r, kind) EXCEPT !.eof = TRUE]

\* consume(n)
Consume(r, n) == [r EXCEPT !.pos = @ + n, !.consumed = @ + n]

\* What a full read of the source (read_to_end) would yield.
Rest(r) == IF r.eof THEN <<>> ELSE SubSeq(S, r.pos + 1, Len(S))

\* ------------------------------------------------------------------ reader
NewReader ==
    [pos |-> 0, vend |-> 0, eof |-> FALSE,
     pc |-> "idle", needle |-> <<>>,
     before |-> <<>>, matched |-> <<>>,
     total_buffered |-> 0,
     buf |-> <<>>, total_bytes_read |-> 0,
     outcome |-> "none", ret |-> 0,
     \* history of the run, read by the properties only
     calls |-> 0, pos0 |-> 0, before0 |-> <<>>, matched0 |-> <<>>,
     fpos |-> 0, consumed |-> 0, nfault |-> 0, sumret |-> 0, nfail |-> 0,
     nonzero |-> 0,
     fill |-> "none", eof0 |-> FALSE]

\* read_until_needle(needle, before, matched): the state a call starts in.
StartCall(r, needle) ==
    [r EXCEPT !.pc = "scan", !.needle = needle,
              !.total_buffered = 0,
              !.buf = <<>>, !.total_bytes_read = 0,
              !.outcome = "none", !.ret = 0,
              !.calls = @ + 1, !.pos0 = r.pos,
              !.before0 = r.before, !.matched0 = r.matched,
              !.fpos = r.pos, !.consumed = 0, !.nfault = 0,
              !.fill = "none", !.eof0 = r.eof]

\* return Ok(n) / Poll::Ready(Ok(n))
ReturnOk(r, n, how) ==
    [r EXCEPT !.pc = "idle", !.outcome = how, !.ret = n, !.sumret = @ + n,
              !.nonzero = @ + (IF n > 0 THEN 1 ELSE 0)]

\* return Err(e) / Poll::Ready(Err(e))
ReturnErr(r, kind) ==
    [r EXCEPT !.pc = "idle", !.outcome = kind, !.nfail = @ + 1]

\* A panic unwinds out of the call.
Panic(r) == [r EXCEPT !.pc = "panicked", !.outcome = "panic", !.nfail = @ + 1]

\* ---------------------------------------------------------- blocking loop
\* Mutant: an interrupted fill is accounted for as if it had delivered bytes.
IoOnInterrupted_Accounts(r) ==
    [r EXCEPT !.nfault = @ + 1, !.total_buffered = @ + 1]

\* Err(ref e) if e.kind() == ErrorKind::Interrupted => continue
IoOnInterrupted(r) == [r EXCEPT !.nfault = @ + 1]

\* Mutant: every error of fill_buf is retried.
IoOnError_Continues(r) == r

\* Err(e) => return Err(e)
IoOnError(r) == ReturnErr(r, "error")

\* Mutant: the bytes used stop at the start of the match.
IoFound_ExcludesNeedle(r, available, range) ==
    ReturnOk(
        Consume([r EXCEPT
                    !.before = @ \o SubSeq(available, 1, range.start),
                    !.matched = @ \o SubSeq(available, range.start + 1, range.end)],
                range.start),
        range.start, "matched")

\* The needle was found in available.
IoFound(r, available, range) ==
    ReturnOk(
        Consume([r EXCEPT
                    !.before = @ \o SubSeq(available, 1, range.start),
                    !.matched = @ \o SubSeq(available, range.start + 1, range.end)],
                range.end),
        range.end, "matched")

\* No match and the view grew since the last fill: keep everything in the
\* source and account for the growth.
IoMore(r, buffered) ==
    [Consume(r, 0) EXCEPT !.total_buffered = @ + buffered]

\* Mutant: the rest of the stream is appended to Matched as well.
IoEof_IntoMatched(r, available) ==
    ReturnOk(Consume([r EXCEPT !.before = @ \o available,
                               !.matched = @ \o available],
                     Len(available)),
             Len(available), "eof")

\* Mutant: the rest of the stream is consumed but 0 is returned.
IoEof_ReturnsZero(r, available) ==
    ReturnOk(Consume([r EXCEPT !.before = @ \o available], Len(available)),
             0, "eof")

\* No match and no growth: taken as end of stream.
IoEof(r, available) ==
    ReturnOk(Consume([r EXCEPT !.before = @ \o available], Len(available)),
             Len(available), "eof")

\* One iteration of the loop whose fill_buf returned Ok.
IoIteration(r, e) ==
    LET r1 == SrcFill(r, e)
        available == View(r1)
        buffered == Len(available) - r1.total_buffered
        range == Findin(r1.needle, available)
    IN  IF NeedlePanics(r1.needle) THEN Panic(r1)
        ELSE IF range.found THEN IoFound(r1, available, range)
        ELSE IF buffered > 0 THEN IoMore(r1, buffered)
        ELSE IoEof(r1, available)

\* -------------------------------------------------------- suspending loop
\* Mutant: the scan starts afresh when it is polled again.
FutOnPending_Restarts(r) ==
    [r EXCEPT !.nfault = @ + 1, !.buf = <<>>, !.total_bytes_read = 0]

\* ready!(..): poll_fill_buf returned Pending, so does poll.
FutOnPending(r) == [r EXCEPT !.nfault = @ + 1]

\* `?`: every error of poll_fill_buf is returned, Interrupted included.
FutOnError(r, kind) == ReturnErr(r, kind)

\* Mutant: the end of the match is taken as an offset into the view.
FutUsedOnMatch_NoOffset(available, buf, range) == Len(available) - range.end

\* Mutant: the whole view is consumed on a match.
FutUsedOnMatch_WholeView(available, buf, range) == Len(available)

\* available.len() - (buf.len() - range.end)
FutUsedOnMatch(available, buf, range) ==
    Len(available) - (Len(buf) - range.end)

\* Mutant: the bytes consumed are not added to the total.
FutAdvance_NoCount(r, used) == Consume(r, used)

\* consume(used); *total_bytes_read += used
FutAdvance(r, used) ==
    [Consume(r, used) EXCEPT !.total_bytes_read = @ + used]

\* return Poll::Ready(Ok(mem::replace(total_bytes_read, 0)))
FutReturn(r, how) ==
    [ReturnOk(r, r.total_bytes_read, how) EXCEPT !.total_bytes_read = 0]

\* Mutant: at end of stream only the last view is appended to Before.
FutEof_OnlyLastView(r, available) ==
    FutReturn(FutAdvance([r EXCEPT !.before = @ \o available], Len(available)),
              "eof")

\* available is empty: end of stream.
FutEof(r, available) ==
    FutReturn(FutAdvance([r EXCEPT !.before = @ \o r.buf], Len(available)),
              "eof")

\* Mutant: the outputs are assigned, not appended to.
FutFound_Replaces(r, available, range) ==
    FutReturn(
        FutAdvance([r EXCEPT
                       !.before = SubSeq(r.buf, 1, range.start),
                       !.matched = SubSeq(r.buf, range.start + 1, range.end)],
                   FutUsedOnMatch(available, r.buf, range)),
        "matched")

\* The needle was found in buf.
FutFound(r, available, range) ==
    FutReturn(
        FutAdvance([r EXCEPT
                       !.before = @ \o SubSeq(r.buf, 1, range.start),
                       !.matched = @ \o SubSeq(r.buf, range.start + 1, range.end)],
                   FutUsedOnMatch(available, r.buf, range)),
        "matched")

\* Mutant: bytes without a match are handed to Before as they are consumed.
FutMore_WritesBefore(r, available) ==
    FutAdvance([r EXCEPT !.before = @ \o available], Len(available))

\* No match yet: the whole view is consumed and kept in buf.
FutMore(r, available) == FutAdvance(r, Len(available))

\* One iteration of the loop whose poll_fill_buf returned Ready(Ok).
FutIteration(r, e) ==
    LET r1 == SrcPollFill(r, e)
        available == View(r1)
        r2 == [r1 EXCEPT !.buf = @ \o available]
        range == Findin(r2.needle, r2.buf)
    IN  IF available = <<>> THEN FutEof(r2, available)
        ELSE IF NeedlePanics(r2.needle) THEN Panic(r2)
        ELSE IF range.found THEN FutFound(r2, available, range)
        ELSE FutMore(r2, available)

\* ----------------------------------------------------------------- actions
Set(v, r) == rd' = [rd EXCEPT ![v] = r]

Frame == UNCHANGED <<S, plan, active>>

\* The caller issues read_until_needle on reader v.
Call(v) ==
    /\ rd[v].pc = "idle"
    /\ rd[v].calls < MaxCalls
    /\ \E needle \in Needles : Set(v, StartCall(rd[v], needle))
    /\ Frame

IoFill(v) ==
    /\ v = "io" /\ rd[v].pc = "scan"
    /\ \E e \in FillEnds(rd[v]) : Set(v, IoIteration(rd[v], e))
    /\ Frame

IoInterrupted(v) ==
    /\ v = "io" /\ rd[v].pc = "scan"
    /\ rd[v].nfault < MaxFaults
    /\ Set(v, IoOnInterrupted(SrcFails(rd[v], "interrupted")))
    /\ Frame

IoError(v) ==
    /\ v = "io" /\ rd[v].pc = "scan"
    /\ Set(v, IoOnError(SrcFails(rd[v], "error")))
    /\ Frame

FutFill(v) ==
    /\ v = "fut" /\ rd[v].pc = "scan"
    /\ \E e \in FillEnds(rd[v]) : Set(v, FutIteration(rd[v], e))
    /\ Frame

FutPending(v) ==
    /\ v = "fut" /\ rd[v].pc = "scan"
    /\ SrcAwaitsChunk(rd[v])
    /\ rd[v].nfault < MaxFaults
    /\ Set(v, FutOnPending(SrcFails(rd[v], "pending")))
    /\ Frame

FutError(v) ==
    /\ v = "fut" /\ rd[v].pc = "scan"
    /\ SrcAwaitsChunk(rd[v])
    /\ \E kind \in {"interrupted", "error"} :
          Set(v, FutOnError(SrcPollFails(rd[v], kind), kind))
    /\ Frame

Next ==
    \/ \E v \in active : Call(v)
    \/ \E v \in active : IoFill(v)
    \/ \E v \in active : IoInterrupted(v)
    \/ \E v \in active : IoError(v)
    \/ \E v \in active : FutFill(v)
    \/ \E v \in active : FutPending(v)
    \/ \E v \in active : FutError(v)

\* One reader runs, over any stream, divided into chunks in any way.
Init ==
    /\ S \in Streams
    /\ plan = [fixed |-> FALSE, cuts |-> {}]
    /\ active \in {{v} : v \in Variants}
    /\ rd = [v \in Variants |-> NewReader]

Spec == Init /\ [][Next]_vars

\* ------------------------------------------------- both readers, one input
\* The caller issues the same call on both readers.
CallBoth ==
    /\ \A v \in Variants : rd[v].pc = "idle" /\ rd[v].calls < MaxCalls
    /\ \E needle \in Needles \ {<<>>} :
          rd' = [v \in Variants |-> StartCall(rd[v], needle)]
    /\ Frame

NextEq ==
    \/ CallBoth
    \/ \E v \in active : IoFill(v)
    \/ \E v \in active : FutFill(v)

\* Both readers run, each on its own source over the same stream, divided
\* into the same chunks.
InitEq ==
    /\ S \in Streams
    /\ plan \in {[fixed |-> TRUE, cuts |-> c] : c \in SUBSET (1..(Len(S) - 1))}
    /\ active = Variants
    /\ rd = [v \in Variants |-> NewReader]

SpecEq == InitEq /\ [][NextEq]_vars

\* ------------------------------------------- one reader, read to its end
\* The caller issues read_until_needle again, with a non-empty needle.
CallAgain(v) ==
    /\ rd[v].pc = "idle"
    /\ rd[v].calls < MaxSumCalls
    /\ \E needle \in Needles \ {<<>>} : Set(v, StartCall(rd[v], needle))
    /\ Frame

NextSum ==
    \/ \E v \in active : CallAgain(v)
    \/ \E v \in active : IoFill(v)
    \/ \E v \in active : FutFill(v)

\* One reader runs, over any stream divided into chunks in any way, on a
\* source that does not fail, for as many calls as it takes to reach the
\* end of the stream.
SpecSum == Init /\ [][NextSum]_vars

\* -------------------------------------------------------------- properties
\* A call of r has returned Ok.
Returned(r) == r.pc = "idle" /\ r.outcome \in {"matched", "eof"}

\* The bytes the last call of r appended to Before and to Matched.
AddedBefore(r) == SubSeq(r.before, Len(r.before0) + 1, Len(r.before))

AddedMatched(r) == SubSeq(r.matched, Len(r.matched0) + 1, Len(r.matched))

\* The stream that was left in r's source when its last call started: none
\* of it when the source had ended.
StreamAtCall(r) == IF r.eof0 THEN <<>> ELSE SubSeq(S, r.pos0 + 1, Len(S))

\* The view r's source exposed throughout the last blocking call.
ViewAtCall(r) == SubSeq(S, r.pos0 + 1, r.vend)

IsPrefix(a, b) == Len(a) <= Len(b) /\ SubSeq(b, 1, Len(a)) = a

\* P occurs in H at offset s; its first occurrence is at s; it does not occur.
OccursAt(P, H, s) ==
    /\ s + Len(P) <= Len(H)
    /\ \A i \in 1..Len(P) : H[s + i] = P[i]

FirstAt(P, H, s) ==
    OccursAt(P, H, s) /\ \A t \in 0..(s - 1) : ~OccursAt(P, H, t)

Absent(P, H) == \A t \in 0..Len(H) : ~OccursAt(P, H, t)

\* The last call of r split H at offset s: it returned s + len(P), appended
\* H[0..s) to Before and P to Matched and left the source right after the
\* occurrence.
SplitAt(r, H, s) ==
    /\ r.outcome = "matched"
    /\ r.ret = s + Len(r.needle)
    /\ AddedBefore(r) = SubSeq(H, 1, s)
    /\ AddedMatched(r) = r.needle
    /\ r.pos = r.pos0 + s + Len(r.needle)

\* The last call of r took all of H without a match.
TookAll(r, H) ==
    /\ r.outcome = "eof"
    /\ r.ret = Len(H)
    /\ AddedBefore(r) = H
    /\ AddedMatched(r) = <<>>
    /\ r.pos = r.pos0 + Len(H)

\* C1: suspending variant: when a non-empty needle occurs in the stream left
\* in the source, first at offset s, a call that returns has returned
\* s + len(P), appended the s bytes before the occurrence to Before and the
\* needle to Matched, and a full read of the source then yields the bytes
\* after the occurrence, whatever the division into chunks.
C1_FutSplitsAtFirstOccurrence ==
    \A v \in active \cap {"fut"} :
        LET r == rd[v]
            H == StreamAtCall(r)
        IN  (Returned(r) /\ Len(r.needle) > 0) =>
                \A s \in 0..Len(H) :
                    FirstAt(r.needle, H, s) =>
                        /\ SplitAt(r, H, s)
                        /\ Rest(r) = SubSeq(H, s + Len(r.needle) + 1, Len(H))

\* A suspending call matched a needle that straddles a chunk boundary, with
\* bytes before it and bytes left after it.
C1_Witness ==
    \E v \in active \cap {"fut"} :
        LET r == rd[v]
        IN  /\ Returned(r) /\ r.outcome = "matched"
            /\ AddedBefore(r) # <<>>
            /\ Rest(r) # <<>>
            /\ r.pos0 + Len(AddedBefore(r)) < r.fpos
            /\ r.fpos < r.pos

\* C2: blocking variant on a source whose fill exposes all remaining bytes R:
\* a call splits R at the first occurrence of its non-empty needle, takes all
\* of R when the needle does not occur, and returns 0 and appends nothing on
\* an exhausted source.
C2_IoCursorSplit ==
    \A v \in active \cap {"io"} :
        LET r == rd[v]
            R == StreamAtCall(r)
        IN  (Returned(r) /\ Len(r.needle) > 0 /\ r.vend = Len(S)) =>
                /\ \A s \in 0..Len(R) :
                       FirstAt(r.needle, R, s) => SplitAt(r, R, s)
                /\ Absent(r.needle, R) => (TookAll(r, R) /\ r.pos = Len(S))
                /\ R = <<>> =>
                       /\ r.ret = 0
                       /\ r.before = r.before0
                       /\ r.matched = r.matched0

\* After a call that matched with bytes before the needle, a second blocking
\* call on the exhausted in-memory source returned 0.
C2_Witness ==
    \E v \in active \cap {"io"} :
        LET r == rd[v]
        IN  /\ Returned(r) /\ r.vend = Len(S) /\ Len(r.needle) > 0
            /\ r.calls = 2
            /\ r.before0 # <<>> /\ r.matched0 # <<>>
            /\ r.pos0 = Len(S)
            /\ r.ret = 0

\* C3: a call that returns without having found the needle leaves Matched as
\* it was when the call started, in both variants.
C3_NoMatchLeavesMatched ==
    \A v \in active :
        (Returned(rd[v]) /\ rd[v].outcome = "eof") =>
            rd[v].matched = rd[v].matched0

\* A call ended at end of stream, after consuming bytes, on a Matched buffer
\* that already held an earlier match.
C3_Witness ==
    \E v \in active :
        /\ Returned(rd[v]) /\ rd[v].outcome = "eof"
        /\ rd[v].matched0 # <<>>
        /\ rd[v].ret > 0

\* C4: when the non-empty needle does not occur in the stream left in the
\* source, a call that returns has appended all of that stream to Before, in
\* both variants and for every division into chunks.
C4_NoMatchTakesWholeStream ==
    \A v \in active :
        LET r == rd[v]
        IN  (Returned(r) /\ Len(r.needle) > 0
                /\ Absent(r.needle, StreamAtCall(r))) =>
                AddedBefore(r) = StreamAtCall(r)

\* C5: on the same stream, divided into the same chunks, and with the same
\* non-empty needle, a blocking and a suspending call that start at the same
\* place of the stream return the same value, append the same bytes to Before
\* and to Matched and leave the same bytes in the source.
C5_VariantsAgree ==
    LET a == rd["io"]
        b == rd["fut"]
    IN  (/\ active = Variants
         /\ Returned(a) /\ Returned(b)
         /\ a.calls = b.calls /\ a.needle = b.needle /\ Len(a.needle) > 0
         /\ a.pos0 = b.pos0) =>
            /\ a.ret = b.ret
            /\ AddedBefore(a) = AddedBefore(b)
            /\ AddedMatched(a) = AddedMatched(b)
            /\ Rest(a) = Rest(b)

\* C6: Before and Matched are only appended to: what each held when a call
\* started is a prefix of what it holds during and after the call.
C6_OutputsAppendOnly ==
    \A v \in active :
        /\ IsPrefix(rd[v].before0, rd[v].before)
        /\ IsPrefix(rd[v].matched0, rd[v].matched)

\* A second call appended to a Before and a Matched that both held the
\* results of the first.
C6_Witness ==
    \E v \in active :
        /\ Returned(rd[v]) /\ rd[v].calls = 2
        /\ rd[v].before0 # <<>> /\ rd[v].matched0 # <<>>
        /\ AddedBefore(rd[v]) # <<>> /\ AddedMatched(rd[v]) # <<>>

\* C7: the value a call returns is the number of bytes it consumed from the
\* source, the sum of its consume(n) arguments, on a match and at end of
\* stream alike.
C7_ReturnIsBytesConsumed ==
    \A v \in active :
        Returned(rd[v]) =>
            /\ rd[v].ret = rd[v].consumed
            /\ rd[v].outcome = "matched" =>
                   rd[v].ret >= Len(AddedMatched(rd[v]))

\* A call matched after consuming more than one view of the source.
C7_Witness ==
    \E v \in active :
        /\ Returned(rd[v]) /\ rd[v].outcome = "matched"
        /\ rd[v].fpos > rd[v].pos0
        /\ rd[v].ret > Len(rd[v].needle)

\* The views the next fill of r's source can expose.
NextViews(r) == {View(SrcFill(r, e)) : e \in FillEnds(r)}

\* C8: after a call that returned, the next fill of the source exposes the
\* bytes the call left unconsumed: bytes of the stream starting right after
\* the first occurrence of the needle when the call matched (none only if
\* none are left), and no bytes when it ended without a match.
C8_NextFillYieldsTheRest ==
    \A v \in active :
        LET r == rd[v]
            H == StreamAtCall(r)
        IN  (Returned(r) /\ Len(r.needle) > 0) =>
                \A view \in NextViews(r) :
                    /\ r.outcome = "eof" => view = <<>>
                    /\ r.outcome = "matched" =>
                          \A s \in 0..Len(H) :
                              FirstAt(r.needle, H, s) =>
                                  LET after == SubSeq(H, s + Len(r.needle) + 1, Len(H))
                                  IN  /\ IsPrefix(view, after)
                                      /\ (view = <<>>) = (after = <<>>)

\* C9: once a call has returned 0, with no call before it having failed, the
\* values returned by all calls add up to the length of the stream.
C9_SumLaw ==
    \A v \in active :
        (Returned(rd[v]) /\ rd[v].ret = 0 /\ rd[v].nfail = 0) =>
            rd[v].sumret = Len(S)

\* A call returned 0 after three calls had each returned a part of the
\* stream, one of them at least with a match and one with bytes before it.
C9_Witness ==
    \E v \in active :
        /\ Returned(rd[v]) /\ rd[v].ret = 0 /\ rd[v].nfail = 0
        /\ rd[v].calls = 4 /\ rd[v].nonzero = 3
        /\ rd[v].before0 # <<>> /\ rd[v].matched0 # <<>>
        /\ rd[v].sumret = Len(S)

\* What a blocking call without interruptions returns and appends: it splits
\* the view its source holds at the first occurrence of the needle, or takes
\* the whole view.
IoSplitsView(r) ==
    LET H == ViewAtCall(r)
    IN  /\ \A s \in 0..Len(H) : FirstAt(r.needle, H, s) => SplitAt(r, H, s)
        /\ Absent(r.needle, H) => TookAll(r, H)

\* Reader v's fill was interrupted in this step.
InterruptedStep(v) == rd'[v].nfault = rd[v].nfault + 1

\* C10: blocking variant: an interrupted fill changes nothing (nothing is
\* consumed, the accounted bytes, Before and Matched are as before, the call
\* goes on), and a call returns and appends the same whether or not fills
\* were interrupted.
C10_IoInterruptedIsRetried ==
    /\ [][\A v \in active \cap {"io"} :
            InterruptedStep(v) =>
                rd'[v] = [rd[v] EXCEPT !.nfault = rd'[v].nfault,
                                       !.fill = rd'[v].fill]]_vars
    /\ [](\A v \in active \cap {"io"} :
            (Returned(rd[v]) /\ Len(rd[v].needle) > 0) => IoSplitsView(rd[v]))

\* A blocking call matched after one of its fills was interrupted.
C10_Witness ==
    \E v \in active \cap {"io"} :
        /\ Returned(rd[v]) /\ rd[v].outcome = "matched"
        /\ rd[v].nfault > 0
        /\ AddedBefore(rd[v]) # <<>>

\* The last call of r split the stream left in its source at the first
\* occurrence of the needle, or took all of it when there is none.
SplitsStream(r) ==
    LET H == StreamAtCall(r)
    IN  /\ \A s \in 0..Len(H) : FirstAt(r.needle, H, s) => SplitAt(r, H, s)
        /\ Absent(r.needle, H) => TookAll(r, H)

\* C11: suspending variant: an Interrupted fill is retried and never comes
\* back to the caller as an error, and the call returns and appends what it
\* does on a source that is not interrupted.
C11_FutInterruptedIsRetried ==
    \A v \in active \cap {"fut"} :
        /\ rd[v].outcome # "interrupted"
        /\ (Returned(rd[v]) /\ Len(rd[v].needle) > 0) => SplitsStream(rd[v])

\* C12: when a fill fails with an error other than Interrupted, the call
\* returns that error in the same step, without consuming anything, and
\* makes no further fill or consume: the reader stays as the failing fill
\* left it until the next call.
C12_FatalErrorReturnedAtOnce ==
    /\ [][\A v \in active :
            (rd[v].pc = "scan" /\ rd'[v].fill = "error") =>
                /\ rd'[v].pc = "idle"
                /\ rd'[v].outcome = "error"
                /\ rd'[v].pos = rd[v].pos
                /\ rd'[v].vend = rd[v].vend
                /\ rd'[v].consumed = rd[v].consumed]_vars
    /\ [][\A v \in active :
            (rd[v].outcome = "error" /\ rd'[v].calls = rd[v].calls) =>
                rd'[v] = rd[v]]_vars
    /\ [](\A v \in active :
            rd[v].outcome = "error" => rd[v].fill = "error")

\* A call failed with a fatal error after fills that had succeeded.
C12_Witness ==
    \E v \in active :
        /\ rd[v].outcome = "error" /\ rd[v].pc = "idle"
        /\ rd[v].total_buffered > 0 \/ rd[v].consumed > 0

\* C13: with the empty needle, findin does not fail and returns the empty
\* range at offset 0, and a call on a source that has bytes left ends as a
\* match that returns 0 and appends nothing to Before or to Matched.
C13_EmptyNeedleMatchesAtZero ==
    \A v \in active :
        LET r == rd[v]
        IN  (/\ r.calls > 0 /\ r.needle = <<>>
             /\ r.pc # "scan"
             /\ r.outcome \notin {"error", "interrupted"}
             /\ StreamAtCall(r) # <<>>) =>
                /\ ~NeedlePanics(r.needle)
                /\ Findin(r.needle, StreamAtCall(r)) =
                       [found |-> TRUE, start |-> 0, end |-> 0]
                /\ r.outcome = "matched"
                /\ r.ret = 0
                /\ r.before = r.before0
                /\ r.matched = r.matched0

\* The haystacks at hand in a state: the stream, the view of each source and
\* the bytes each suspending scan has accumulated.
Haystacks(r) == {S, View(r), r.buf, StreamAtCall(r)}

\* C14: for a non-empty needle P and a haystack H, findin returns the range
\* [s, s + len(P)) of the lowest s at which P occurs in H, and None exactly
\* when P occurs nowhere in H (as when P is longer than H).
C14_FindinIsFirstOccurrence ==
    \A v \in active :
        \A H \in Haystacks(rd[v]) :
            LET P == rd[v].needle
                range == Findin(P, H)
            IN  Len(P) > 0 =>
                    /\ range.found =>
                           /\ FirstAt(P, H, range.start)
                           /\ range.end = range.start + Len(P)
                    /\ ~range.found => (Absent(P, H) /\ range = None)

\* findin was given a needle that occurs in the stream twice, first after
\* the start of the stream.
C14_Witness ==
    \E v \in active :
        LET P == rd[v].needle
            range == Findin(P, S)
        IN  /\ Len(P) > 0 /\ range.found
            /\ range.start > 0
            /\ \E t \in (range.start + 1)..Len(S) : OccursAt(P, S, t)

\* Reader v ran a loop iteration in this step that found no match and did
\* not end the scan.
NoMatchStep(v) ==
    /\ rd[v].pc = "scan" /\ rd'[v].pc = "scan"
    /\ rd'[v].fill = "ok"
    /\ rd'[v] # rd[v]

\* The view the fill of this step exposed, and how many of its bytes are new
\* to the scan.
Exposed(v) == SubSeq(S, rd[v].pos + 1, rd'[v].vend)

Delta(v) == Len(Exposed(v)) - rd[v].total_buffered

\* The bytes the scan of r searches, before those of the next fill.
Retained(r, v) == IF v = "fut" THEN r.buf ELSE View(r)

\* C15: a loop iteration that finds no match and is not at end of stream
\* consumes from the source all the bytes its fill newly exposed, and these
\* bytes stay with the scan, which searches them again with the next fill.
C15_NoMatchConsumesDelta ==
    [][\A v \in active :
          NoMatchStep(v) =>
              /\ rd'[v].consumed = rd[v].consumed + Delta(v)
              /\ rd'[v].pos = rd[v].pos + Delta(v)
              /\ Retained(rd'[v], v) = Retained(rd[v], v) \o
                    SubSeq(Exposed(v), Len(Exposed(v)) - Delta(v) + 1,
                           Len(Exposed(v)))]_vars

\* C16: suspending variant: a poll that returns Pending leaves the scan as
\* it was (the accumulated bytes, the count of bytes consumed, Before,
\* Matched and the source), and a call returns, appends and leaves in the
\* source the same whatever the number and the places of its Pending polls.
C16_FutPendingPreservesScan ==
    /\ [][\A v \in active \cap {"fut"} :
            (rd[v].pc = "scan" /\ rd'[v].fill = "pending" /\ rd'[v] # rd[v]) =>
                rd'[v] = [rd[v] EXCEPT !.nfault = rd'[v].nfault,
                                       !.fill = rd'[v].fill]]_vars
    /\ [](\A v \in active \cap {"fut"} :
            (Returned(rd[v]) /\ Len(rd[v].needle) > 0) => SplitsStream(rd[v]))

\* A suspending call matched across several fills, one of them preceded by a
\* Pending poll.
C16_Witness ==
    \E v \in active \cap {"fut"} :
        /\ Returned(rd[v]) /\ rd[v].outcome = "matched"
        /\ rd[v].nfault > 0
        /\ rd[v].fpos > rd[v].pos0
        /\ AddedBefore(rd[v]) # <<>>

\* C17: a call whose fills deliver chunks, end of stream, Interrupted or
\* Pending, and no fatal error, ends in one of the two terminal outcomes,
\* Matched or ExhaustedNoMatch, once it has left Scanning.
C17_EndsMatchedOrExhausted ==
    \A v \in active :
        LET r == rd[v]
        IN  (/\ r.calls > 0 /\ r.pc # "scan"
             /\ Len(r.needle) > 0
             /\ r.fill # "error") =>
                r.pc = "idle" /\ r.outcome \in {"matched", "eof"}

\* C18: the bytes a call that returned appended to Before, followed by those
\* it appended to Matched, are the bytes it consumed from the source, in
\* stream order, and the value returned is the number of bytes appended.
C18_BytesConserved ==
    \A v \in active :
        LET r == rd[v]
        IN  Returned(r) =>
                /\ AddedBefore(r) \o AddedMatched(r) =
                       SubSeq(S, r.pos0 + 1, r.pos0 + r.consumed)
                /\ r.pos = r.pos0 + r.consumed
                /\ r.ret = Len(AddedBefore(r)) + Len(AddedMatched(r))

\* A call matched after several fills, with bytes before the needle.
C18_Witness ==
    \E v \in active :
        /\ Returned(rd[v]) /\ rd[v].outcome = "matched"
        /\ rd[v].fpos > rd[v].pos0
        /\ Len(AddedBefore(rd[v])) > 1

\* C19: Before and Matched are as they were when the call started for as
\* long as the scan goes on (so also when it is dropped while suspended) and
\* when the call has failed with an error.
C19_OutputsWrittenAtTheEndOnly ==
    \A v \in active :
        (rd[v].pc = "scan" \/ rd[v].outcome \in {"error", "interrupted"}) =>
            /\ rd[v].before = rd[v].before0
            /\ rd[v].matched = rd[v].matched0

\* A call failed with an error after fills that had consumed bytes.
C19_Witness ==
    \E v \in active :
        /\ rd[v].outcome = "error" /\ rd[v].pc = "idle"
        /\ rd[v].consumed > 0
        /\ rd[v].buf # <<>>

\* C20: for a non-empty needle, the byte counts never go below zero: in the
\* blocking variant the view is never shorter than the bytes accounted for;
\* in the suspending variant a match ends inside the latest view, so that
\* the bytes used on a match are at least 1 and at most the whole view.
C20_NoUnderflow ==
    \A v \in active :
        LET r == rd[v]
        IN  (r.pc = "scan" /\ Len(r.needle) > 0) =>
                \A e \in FillEnds(r) :
                    LET available == View(SrcFill(r, e))
                        buf == r.buf \o available
                        range == Findin(r.needle, buf)
                        used == FutUsedOnMatch(available, buf, range)
                    IN  /\ v = "io" => Len(available) - r.total_buffered >= 0
                        /\ (v = "fut" /\ available # <<>> /\ range.found) =>
                               /\ range.end > Len(r.buf)
                               /\ Len(buf) - range.end >= 0
                               /\ used >= 1 /\ used <= Len(available)

\* A suspending scan is about to match a needle that starts in the bytes of
\* earlier fills and ends in the next one.
C20_Witness ==
    \E v \in active \cap {"fut"} :
        LET r == rd[v]
        IN  /\ r.pc = "scan" /\ Len(r.needle) > 0
            /\ \E e \in FillEnds(r) :
                   LET available == View(SrcFill(r, e))
                       range == Findin(r.needle, r.buf \o available)
                   IN  /\ range.found
                       /\ range.start < Len(r.buf)
                       /\ range.end < Len(r.buf) + Len(available)

====
